---- MODULE Spec2Model ----
(***************************************************************************)
(* The ingest-and-batch pipeline of ScalableDataAPI:                       *)
(*   - DataService.EnqueueBlog / UpdateBlog   (app/dataservice/server.py)  *)
(*   - BlogWorker, the batch consumer         (app/worker/worker.py)       *)
(*   - the blogs table and its insert         (app/models/blogs.py,        *)
(*                                             app/common/db.py)           *)
(*   - the Redis stream bus as the code uses it: SADD/SMEMBERS, XADD with  *)
(*     an approximate MAXLEN, XGROUP CREATE, XREADGROUP ">", XACK, XDEL.   *)
(*                                                                         *)
(* Time.  Every stored instant is kept as an offset from the present       *)
(* instant: now is 0, an instant t ticks ago is -t, a caller-supplied      *)
(* instant in the future is positive.  Tick moves the present one tick on, *)
(* so every stored instant goes down by one; instants older than Horizon   *)
(* ticks are kept as -Horizon (the consumer's timers) or -StampHorizon     *)
(* (the instants records carry).  One tick stands for one second; a        *)
(* shorter wait (300 ms, 500 ms) counts as one tick.                       *)
(***************************************************************************)
EXTENDS Integers, Sequences, FiniteSets, TLC

(***************************************************************************)
(* Bounds of the model.                                                    *)
(***************************************************************************)
MaxEntries == 2
MaxFaults == 1
MaxCrashes == 1
MaxUpdates == 1
Horizon == 3
StampHorizon == 1

(***************************************************************************)
(* Program constants, scaled down (the defaults of app/common/config.py    *)
(* are 1000 records, 300 ms, 2097152 bytes, 200000 entries); the waits     *)
(* (block=1000, sleep(1.0), sleep(0.5)) in ticks.                          *)
(***************************************************************************)
batch_max_count == 2
batch_max_age_ms == 1
batch_max_bytes == 150
stream_maxlen == 1
block == 1
sleep_on_error == 1
sleep_on_empty == 1
approx_overhead == 64

now == 0

Genres == {"g1", "g2"}
Locations == {"l1", "l2"}
Keys == Genres \X Locations
GenreOrder == <<"g1", "g2">>
ClientMsgIds == {"", "m1"}
BigContent == "xxxxxxxxxxxxxxxxxxxxxxxxxxxxxxxxxxxxxxxxxxxxxxxxxxxxxxxxxxxxxxxxxxxxxxxxxxxxxxxxx"
Contents == {"c", BigContent}
\* A created_at_iso / updated_at_iso text: <<>> is the empty string, <<t>> the
\* ISO text of instant t; any other length is text fromisoformat rejects.
IsoInputs == {<<>>}

stream_for_genre(genre) == "blogs:genre:" \o genre
Streams == {stream_for_genre(g) : g \in Genres}

VARIABLES
    registry,         \* Redis set blogs:genres
    streams,          \* Redis streams: stream name -> entries, oldest first
    groups,           \* consumer group blog_group per stream: exists, last-delivered id, PEL
    next_mid,         \* the next entry id XADD assigns
    rows,             \* the blogs table
    next_id,          \* its AUTO_INCREMENT counter
    pc,               \* where BlogWorker.run is
    disc,             \* run's local `streams`
    buffers,          \* BlogWorker.buffers
    key_order,        \* the insertion order of BlogWorker.buffers' keys
    buffer_first_at,  \* BlogWorker.buffer_first_at
    buffer_bytes,     \* BlogWorker.buffer_bytes
    keys_to_flush,    \* run's local keys_to_flush, the part not flushed yet
    since,            \* the instant the pending bus read or sleep began
    faults,           \* failures of the bus and the store so far
    crashes,          \* consumer process deaths so far
    updates,          \* UpdateBlog calls so far
    reply,            \* the response of the latest DataService call
    instances,        \* the worker processes: which one pc ... since describe, and the others
    enqueued,         \* history: entry id -> the client_msg_id EnqueueBlog appended it with
    insert_log,       \* history: the entries bulk inserts committed, in commit order
    delivered,        \* history: entry id -> the consumer instance, stream and key it was delivered to
    xdeleted,         \* history: entry ids removed by the worker's XDEL
    failed            \* history: key -> the entry ids of its last failed bulk insert

bus == <<registry, streams, groups, next_mid>>
store == <<rows, next_id>>
worker == <<pc, disc, buffers, key_order, buffer_first_at, buffer_bytes, keys_to_flush, since>>
env == <<faults, crashes, updates, reply, instances>>
hist == <<enqueued, insert_log, delivered, xdeleted, failed>>
vars == <<bus, store, worker, env, hist>>

(***************************************************************************)
(* Helpers.                                                                *)
(***************************************************************************)
Min(a, b) == IF a <= b THEN a ELSE b

Range(s) == {s[i] : i \in 1..Len(s)}

Mids(s) == {s[i].mid : i \in 1..Len(s)}

\* The first n elements of s.
Take(s, n) == SubSeq(s, 1, Min(n, Len(s)))

\* An instant of the consumer's timers one tick later, seen from the new present.
Shift(t) == IF t > -Horizon THEN t - 1 ELSE t

\* The same for an instant a record carries (created_at, updated_at).
ShiftStamp(t) == IF t > -StampHorizon THEN t - 1 ELSE t

ShiftIso(s) == [i \in 1..Len(s) |-> ShiftStamp(s[i])]

\* DataService responses: a gRPC status code and the fields of the response
\* message.  UNKNOWN is what grpc.aio reports for an exception a handler
\* does not catch.
NoReply == [code |-> "NONE"]

INVALID_ARGUMENT == [code |-> "INVALID_ARGUMENT"]

NOT_FOUND == [code |-> "NOT_FOUND"]

UNKNOWN == [code |-> "UNKNOWN"]

UNIMPLEMENTED == [code |-> "UNIMPLEMENTED"]

\* str.strip(): leading and trailing whitespace removed.
Whitespace == {" ", "\t", "\n"}

RECURSIVE lstrip(_)
lstrip(s) ==
    IF Len(s) > 0 /\ SubSeq(s, 1, 1) \in Whitespace
    THEN lstrip(SubSeq(s, 2, Len(s))) ELSE s

RECURSIVE rstrip(_)
rstrip(s) ==
    IF Len(s) > 0 /\ SubSeq(s, Len(s), Len(s)) \in Whitespace
    THEN rstrip(SubSeq(s, 1, Len(s) - 1)) ELSE s

strip(s) == rstrip(lstrip(s))

EmptyGroup == [exists |-> FALSE, last |-> 0, pel |-> {}]

Init ==
    /\ registry = {}
    /\ streams = [s \in Streams |-> <<>>]
    /\ groups = [s \in Streams |-> EmptyGroup]
    /\ next_mid = 1
    /\ rows = {}
    /\ next_id = 1
    /\ pc = "discover"
    /\ disc = <<>>
    /\ buffers = [k \in Keys |-> <<>>]
    /\ key_order = <<>>
    /\ buffer_first_at = [k \in {} |-> 0]
    /\ buffer_bytes = [k \in Keys |-> 0]
    /\ keys_to_flush = <<>>
    /\ since = 0
    /\ faults = 0
    /\ crashes = 0
    /\ updates = 0
    /\ reply = NoReply
    /\ instances = [active |-> 1, idle |-> <<>>]
    /\ enqueued = <<>>
    /\ insert_log = <<>>
    /\ delivered = [m \in {} |-> 0]
    /\ xdeleted = {}
    /\ failed = [k \in {} |-> <<>>]

(***************************************************************************)
(* DataService.EnqueueBlog.                                                *)
(***************************************************************************)
\* A call to the bus or the store raises.
Fault ==
    /\ faults < MaxFaults
    /\ faults' = faults + 1

\* uuid.uuid4(): a value no caller supplies and no other entry carries.
uuid4 == "uuid-" \o ToString(next_mid)

\* XADD stream MAXLEN ~ maxlen: the entry is appended; the cap is approximate,
\* so Redis then evicts any number of oldest entries that leaves at least
\* maxlen of them.
xadd(s, fields, evict) ==
    /\ evict \in 0..Len(streams[s]) + 1
    /\ Len(streams[s]) + 1 - evict >= stream_maxlen
    /\ streams' = [streams EXCEPT ![s] =
                      SubSeq(Append(@, fields), evict + 1, Len(@) + 1)]
    /\ next_mid' = next_mid + 1

\* Mutant: the entry is appended first and the genre registered after.
publish_append_first(genre, stream, fields) ==
    \/ \* XADD fails: the error goes to the caller.
       /\ Fault
       /\ reply' = UNKNOWN
       /\ UNCHANGED <<bus, enqueued>>
    \/ \* XADD succeeds, SADD fails.
       /\ Fault
       /\ reply' = UNKNOWN
       /\ \E evict \in 0..MaxEntries : xadd(stream, fields, evict)
       /\ enqueued' = Append(enqueued, fields.client_msg_id)
       /\ UNCHANGED <<registry, groups>>
    \/ /\ registry' = registry \cup {genre}
       /\ \E evict \in 0..MaxEntries : xadd(stream, fields, evict)
       /\ enqueued' = Append(enqueued, fields.client_msg_id)
       /\ reply' = [code |-> "OK", stream |-> stream, message_id |-> next_mid]
       /\ UNCHANGED <<groups, faults>>

\* redis.sadd("blogs:genres", genre), then redis.xadd(stream, fields, ...),
\* then the response.
publish(genre, stream, fields) ==
    \/ \* SADD fails: the error goes to the caller.
       /\ Fault
       /\ reply' = UNKNOWN
       /\ UNCHANGED <<bus, enqueued>>
    \/ \* SADD succeeds, XADD fails.
       /\ Fault
       /\ reply' = UNKNOWN
       /\ registry' = registry \cup {genre}
       /\ UNCHANGED <<streams, groups, next_mid, enqueued>>
    \/ /\ registry' = registry \cup {genre}
       /\ \E evict \in 0..MaxEntries : xadd(stream, fields, evict)
       /\ enqueued' = Append(enqueued, fields.client_msg_id)
       /\ reply' = [code |-> "OK", stream |-> stream, message_id |-> next_mid]
       /\ UNCHANGED <<groups, faults>>

\* Mutant: the check of content is left out.
required_missing_no_content(genre, location, author, content) ==
    genre = "" \/ location = "" \/ author = ""

\* if not genre or not location or not author or not content
required_missing(genre, location, author, content) ==
    genre = "" \/ location = "" \/ author = "" \/ content = ""

\* The handler, with the number of entries the bus takes in all as a parameter.
EnqueueBlogUpTo(request, max_entries) ==
    LET client_msg_id == IF request.client_msg_id # "" THEN request.client_msg_id ELSE uuid4
        genre == strip(request.genre)
        location == strip(request.location)
        author == strip(request.author)
        content == request.content
        created_at_iso == IF request.created_at_iso # <<>> THEN request.created_at_iso
                          ELSE <<now>>
        stream == stream_for_genre(genre)
        fields == [mid |-> next_mid,
                   client_msg_id |-> client_msg_id,
                   author |-> author,
                   content |-> content,
                   genre |-> genre,
                   location |-> location,
                   created_at_iso |-> created_at_iso]
    IN  IF required_missing(genre, location, author, content)
        THEN \* context.abort(INVALID_ARGUMENT) raises: nothing after it runs.
             /\ reply' = INVALID_ARGUMENT
             /\ UNCHANGED <<bus, store, worker, faults, crashes, instances, updates, hist>>
        ELSE /\ next_mid <= max_entries
             /\ publish(genre, stream, fields)
             /\ UNCHANGED <<store, worker, crashes, instances, updates, insert_log, delivered,
                            xdeleted, failed>>

EnqueueBlog(request) == EnqueueBlogUpTo(request, MaxEntries)

\* The requests callers send: every field filled in (a request with an empty
\* field is rejected above and changes nothing); a short content under the
\* caller's own client_msg_id, or a content of batch_max_bytes and no
\* client_msg_id; one kind of request for the second genre.
Requests ==
    {r \in [client_msg_id : ClientMsgIds, author : {"a"}, content : Contents,
            genre : Genres, location : Locations, created_at_iso : IsoInputs] :
        /\ r.content = BigContent <=> r.client_msg_id = ""
        /\ r.genre = "g2" => r.location = "l1" /\ r.content = BigContent}

Enqueue == \E req \in Requests : EnqueueBlog(req)

(***************************************************************************)
(* The blogs table (app/common/db.py CREATE_TABLE_SQL) and its operations. *)
(* A table is [rows, next_id].                                             *)
(***************************************************************************)
NewRow(tbl, r) ==
    [id |-> tbl.next_id,
     client_msg_id |-> r.client_msg_id,
     author |-> r.author,
     created_at |-> r.created_at,
     updated_at |-> r.updated_at,
     genre |-> r.genre,
     location |-> r.location,
     content |-> r.content]

\* Mutant: a plain INSERT into a table without the unique key.
INSERT_SQL_plain(tbl, r) ==
    [rows |-> tbl.rows \cup {NewRow(tbl, r)}, next_id |-> tbl.next_id + 1]

\* Mutant: ON DUPLICATE KEY UPDATE of every column the statement carries.
INSERT_SQL_overwrite(tbl, r) ==
    IF \E x \in tbl.rows : x.client_msg_id = r.client_msg_id
    THEN [tbl EXCEPT !.rows = {IF x.client_msg_id = r.client_msg_id
                                THEN [NewRow(tbl, r) EXCEPT !.id = x.id]
                                ELSE x : x \in tbl.rows}]
    ELSE [rows |-> tbl.rows \cup {NewRow(tbl, r)}, next_id |-> tbl.next_id + 1]

\* INSERT INTO blogs ... VALUES r ON DUPLICATE KEY UPDATE updated_at = VALUES(updated_at),
\* against UNIQUE KEY uq_client_msg_id and the AUTO_INCREMENT id.
INSERT_SQL(tbl, r) ==
    IF \E x \in tbl.rows : x.client_msg_id = r.client_msg_id
    THEN [tbl EXCEPT !.rows = {IF x.client_msg_id = r.client_msg_id
                                THEN [x EXCEPT !.updated_at = r.updated_at]
                                ELSE x : x \in tbl.rows}]
    ELSE [rows |-> tbl.rows \cup {NewRow(tbl, r)}, next_id |-> tbl.next_id + 1]

\* One multi-row INSERT: the rows are applied in the order given.
RECURSIVE bulk_insert(_, _)
bulk_insert(tbl, rows_list) ==
    IF rows_list = <<>> THEN tbl
    ELSE bulk_insert(INSERT_SQL(tbl, Head(rows_list)), Tail(rows_list))

\* CALL sp_bulk_insert_blogs(:rows_json): the store's bulk insert of a JSON
\* array of rows, with the duplicate handling of INSERT_SQL.
sp_bulk_insert_blogs(tbl, rows_json) == bulk_insert(tbl, rows_json)

\* UPDATE blogs SET content = :content, updated_at = :updated_at WHERE id = :id
UPDATE_CONTENT_SQL(tbl_rows, id, content, updated_at) ==
    {IF r.id = id THEN [r EXCEPT !.content = content, !.updated_at = updated_at] ELSE r :
        r \in tbl_rows}

\* CALL sp_update_blog_content(:id, :content, :updated_at): the store's
\* update-content operation.
sp_update_blog_content(tbl_rows, id, content, updated_at) ==
    UPDATE_CONTENT_SQL(tbl_rows, id, content, updated_at)

(***************************************************************************)
(* DataService.UpdateBlog.                                                 *)
(***************************************************************************)
_iso_to_dt(s) == IF s = <<>> THEN now ELSE IF Len(s) = 1 THEN s[1] ELSE now

\* With no row of that id the call reports 0 rows and the request ends
\* NOT_FOUND, the table as it was.  updates counts the calls that found a row.
UpdateBlog(request) ==
    /\ updates < MaxUpdates
    /\ IF \E r \in rows : r.id = request.id
       THEN /\ updates' = updates + 1
            /\ rows' = sp_update_blog_content(rows, request.id, request.content,
                                              _iso_to_dt(request.updated_at_iso))
            /\ reply' = [code |-> "OK", updated |-> TRUE]
       ELSE \* updated == 0: context.abort(NOT_FOUND) inside the transaction.
            /\ reply' = NOT_FOUND
            /\ UNCHANGED <<rows, updates>>
    /\ UNCHANGED <<bus, next_id, worker, faults, crashes, instances, hist>>

UpdateRequests ==
    [id : 1..MaxEntries, content : {"new"}, updated_at_iso : {<<>>, <<-1>>}]

Update == \E request \in UpdateRequests : UpdateBlog(request)

(***************************************************************************)
(* BlogWorker.  Its buffer state is the record                             *)
(*   [buffers, key_order, buffer_first_at, buffer_bytes].                  *)
(***************************************************************************)
WorkerBuffers ==
    [buffers |-> buffers, key_order |-> key_order,
     buffer_first_at |-> buffer_first_at, buffer_bytes |-> buffer_bytes]

NoBuffers ==
    [buffers |-> [k \in Keys |-> <<>>], key_order |-> <<>>,
     buffer_first_at |-> [k \in {} |-> 0], buffer_bytes |-> [k \in Keys |-> 0]]

\* datetime.fromisoformat(created_at_iso), datetime.now(timezone.utc) when it raises.
fromisoformat_or_now(iso) == IF Len(iso) = 1 THEN iso[1] ELSE now

approx_bytes(fields) ==
    Len(fields.content) + Len(fields.author) + Len(fields.location)
        + Len(fields.genre) + approx_overhead

\* BlogRow(...) of _add_to_buffer.
BlogRow(fields) ==
    [client_msg_id |-> fields.client_msg_id,
     author |-> fields.author,
     created_at |-> fromisoformat_or_now(fields.created_at_iso),
     updated_at |-> now,
     genre |-> fields.genre,
     location |-> fields.location,
     content |-> fields.content]

BufferedItem(stream, fields) ==
    [row |-> BlogRow(fields), redis_stream |-> stream, redis_message_id |-> fields.mid]

\* Mutant: the item is put at the front of the key's list.
_add_to_buffer_front(b, stream, fields) ==
    LET key == <<fields.genre, fields.location>>
        item == BufferedItem(stream, fields)
    IN  [buffers |-> [b.buffers EXCEPT ![key] = <<item>> \o @],
         key_order |-> IF key \in Range(b.key_order) THEN b.key_order
                       ELSE Append(b.key_order, key),
         buffer_first_at |->
             IF key \in DOMAIN b.buffer_first_at THEN b.buffer_first_at
             ELSE [k \in DOMAIN b.buffer_first_at \cup {key} |->
                       IF k = key THEN now ELSE b.buffer_first_at[k]],
         buffer_bytes |-> [b.buffer_bytes EXCEPT ![key] = @ + approx_bytes(fields)]]

_add_to_buffer(b, stream, fields) ==
    LET key == <<fields.genre, fields.location>>
        item == BufferedItem(stream, fields)
    IN  [buffers |-> [b.buffers EXCEPT ![key] = Append(@, item)],
         key_order |-> IF key \in Range(b.key_order) THEN b.key_order
                       ELSE Append(b.key_order, key),
         buffer_first_at |->
             IF key \in DOMAIN b.buffer_first_at THEN b.buffer_first_at
             ELSE [k \in DOMAIN b.buffer_first_at \cup {key} |->
                       IF k = key THEN now ELSE b.buffer_first_at[k]],
         buffer_bytes |-> [b.buffer_bytes EXCEPT ![key] = @ + approx_bytes(fields)]]

\* Mutant: the age of the first item is not looked at.
_should_flush_no_age(b, key) ==
    LET items == b.buffers[key]
    IN  IF items = <<>> THEN FALSE
        ELSE IF Len(items) >= batch_max_count THEN TRUE
        ELSE IF b.buffer_bytes[key] >= batch_max_bytes THEN TRUE
        ELSE FALSE

\* Mutant: the count threshold is compared with > instead of >=.
_should_flush_strict(b, key) ==
    LET items == b.buffers[key]
    IN  IF items = <<>> THEN FALSE
        ELSE IF Len(items) > batch_max_count THEN TRUE
        ELSE IF key \in DOMAIN b.buffer_first_at
                /\ now - b.buffer_first_at[key] >= batch_max_age_ms THEN TRUE
        ELSE IF b.buffer_bytes[key] >= batch_max_bytes THEN TRUE
        ELSE FALSE

_should_flush(b, key) ==
    LET items == b.buffers[key]
    IN  IF items = <<>> THEN FALSE
        ELSE IF Len(items) >= batch_max_count THEN TRUE
        ELSE IF key \in DOMAIN b.buffer_first_at
                /\ now - b.buffer_first_at[key] >= batch_max_age_ms THEN TRUE
        ELSE IF b.buffer_bytes[key] >= batch_max_bytes THEN TRUE
        ELSE FALSE

\* Mutant: the reset forgets the byte accumulator.
reset_buffer_keep_bytes(b, key) ==
    [b EXCEPT !.buffers[key] = <<>>,
              !.buffer_first_at = [k \in DOMAIN @ \ {key} |-> @[k]]]

\* The reset at the end of _flush_key.
reset_buffer(b, key) ==
    [b EXCEPT !.buffers[key] = <<>>,
              !.buffer_first_at = [k \in DOMAIN @ \ {key} |-> @[k]],
              !.buffer_bytes[key] = 0]

\* Mutant: the JSON array lists the items last first.
rows_json_reversed(items) ==
    [i \in 1..Len(items) |-> items[Len(items) + 1 - i].row]

\* The JSON array _flush_key builds from a key's items.
rows_json(items) ==
    [i \in 1..Len(items) |-> items[i].row]

item_mids(items) == {items[i].redis_message_id : i \in 1..Len(items)}

SetBuffers(b) ==
    /\ buffers' = b.buffers
    /\ key_order' = b.key_order
    /\ buffer_first_at' = b.buffer_first_at
    /\ buffer_bytes' = b.buffer_bytes

\* except Exception in run: log, asyncio.sleep(1.0), next iteration.
LoopError ==
    /\ pc' = "sleep"
    /\ since' = now
    /\ keys_to_flush' = <<>>
    /\ disc' = <<>>

\* discover_streams: SMEMBERS blogs:genres, sorted, mapped to stream names.
discover_streams ==
    LET sorted == SelectSeq(GenreOrder, LAMBDA g : g \in registry)
    IN  [i \in 1..Len(sorted) |-> stream_for_genre(sorted[i])]

Discover ==
    /\ pc = "discover"
    /\ \/ /\ discover_streams = <<>>
          /\ pc' = "nap"
          /\ since' = now
          /\ disc' = <<>>
          /\ UNCHANGED <<keys_to_flush, faults>>
       \/ /\ discover_streams # <<>>
          /\ pc' = "ensure"
          /\ disc' = discover_streams
          /\ UNCHANGED <<since, keys_to_flush, faults>>
       \/ /\ Fault
          /\ LoopError
    /\ UNCHANGED <<bus, store, buffers, key_order, buffer_first_at, buffer_bytes,
                   crashes, instances, updates, reply, hist>>

\* asyncio.sleep(0.5) on an empty registry; asyncio.sleep(1.0) after an error.
Wake ==
    /\ \/ pc = "nap" /\ now - since >= sleep_on_empty
       \/ pc = "sleep" /\ now - since >= sleep_on_error
    /\ pc' = "discover"
    /\ since' = now
    /\ UNCHANGED <<bus, store, disc, buffers, key_order, buffer_first_at, buffer_bytes,
                   keys_to_flush, env, hist>>

\* Mutant: the group is created at id "$", after the entries already appended.
xgroup_create_latest(s) ==
    IF groups[s].exists THEN groups[s]
    ELSE [exists |-> TRUE, last |-> next_mid - 1, pel |-> {}]

\* XGROUP CREATE s blog_group 0 MKSTREAM; BUSYGROUP when the group exists.
xgroup_create(s) ==
    IF groups[s].exists THEN groups[s]
    ELSE [exists |-> TRUE, last |-> 0, pel |-> {}]

\* ensure_groups over the discovered streams.
EnsureGroups ==
    /\ pc = "ensure"
    /\ \/ /\ groups' = [s \in Streams |->
                           IF s \in Range(disc) THEN xgroup_create(s) ELSE groups[s]]
          /\ pc' = "read"
          /\ since' = now
          /\ UNCHANGED <<disc, keys_to_flush, faults>>
       \/ /\ Fault
          /\ LoopError
          /\ UNCHANGED groups
    /\ UNCHANGED <<registry, streams, next_mid, store, buffers, key_order,
                   buffer_first_at, buffer_bytes, crashes, instances, updates, reply, hist>>

\* Mutant: the read has no COUNT: it returns all there is.
xreadgroup_no_count(s) == SelectSeq(streams[s], LAMBDA e : e.mid > groups[s].last)

\* Mutant: the read is from id 0, not from '>': entries already delivered are
\* returned again.
xreadgroup_from_start(s) == Take(streams[s], batch_max_count)

\* What XREADGROUP ... COUNT batch_max_count STREAMS s > returns for stream s:
\* the entries after the group's last-delivered id, oldest first.
xreadgroup(s) ==
    Take(SelectSeq(streams[s], LAMBDA e : e.mid > groups[s].last), batch_max_count)

\* resp, flattened: the (stream, entry) pairs in the order run buffers them.
RECURSIVE Resp(_)
Resp(ss) ==
    IF ss = <<>> THEN <<>>
    ELSE LET s == Head(ss)
             msgs == xreadgroup(s)
         IN  [i \in 1..Len(msgs) |-> [stream |-> s, fields |-> msgs[i]]] \o Resp(Tail(ss))

\* History: which consumer instance, stream and key each entry of resp went to.
Delivery(d, resp) ==
    [m \in DOMAIN d \cup {resp[i].fields.mid : i \in 1..Len(resp)} |->
        IF m \in DOMAIN d THEN d[m]
        ELSE LET i == CHOOSE j \in 1..Len(resp) : resp[j].fields.mid = m
             IN  [consumer |-> crashes + 1,
                  stream |-> resp[i].stream,
                  key |-> <<resp[i].fields.genre, resp[i].fields.location>>]]

RECURSIVE AddAll(_, _)
AddAll(b, resp) ==
    IF resp = <<>> THEN b
    ELSE AddAll(_add_to_buffer(b, Head(resp).stream, Head(resp).fields), Tail(resp))

\* keys_to_flush = [k for k in list(self.buffers.keys()) if self._should_flush(k)]
flush_keys(b) == SelectSeq(b.key_order, LAMBDA k : _should_flush(b, k))

\* Mutant: the keys are looked at only when the read returned messages
\* (the evaluation sits under "if resp").
AfterRead_if_resp(resp) ==
    LET b == AddAll(WorkerBuffers, resp)
        chosen == IF resp = <<>> THEN <<>> ELSE flush_keys(b)
    IN  /\ SetBuffers(b)
        /\ keys_to_flush' = chosen
        /\ pc' = IF chosen = <<>> THEN "discover" ELSE "insert"
        /\ since' = now
        /\ disc' = <<>>

\* The rest of an iteration from the return of the group read to the first
\* await of a flush: buffer what was read, pick the keys to flush.
AfterRead(resp) ==
    LET b == AddAll(WorkerBuffers, resp)
    IN  /\ SetBuffers(b)
        /\ keys_to_flush' = flush_keys(b)
        /\ pc' = IF flush_keys(b) = <<>> THEN "discover" ELSE "insert"
        /\ since' = now
        /\ disc' = <<>>

Read ==
    /\ pc = "read"
    /\ \/ \* Entries are there: the read returns them and the group records the delivery.
          /\ Resp(disc) # <<>>
          /\ groups' = [s \in Streams |->
                LET msgs == xreadgroup(s)
                IN  IF s \in Range(disc) /\ msgs # <<>>
                    THEN [groups[s] EXCEPT !.last = msgs[Len(msgs)].mid,
                                           !.pel = @ \cup Mids(msgs)]
                    ELSE groups[s]]
          /\ delivered' = Delivery(delivered, Resp(disc))
          /\ AfterRead(Resp(disc))
          /\ UNCHANGED faults
       \/ \* Nothing arrived within block ms: the read returns nothing.
          /\ Resp(disc) = <<>>
          /\ now - since >= block
          /\ AfterRead(<<>>)
          /\ UNCHANGED <<groups, delivered, faults>>
       \/ /\ Fault
          /\ LoopError
          /\ UNCHANGED <<groups, delivered, buffers, key_order, buffer_first_at, buffer_bytes>>
    /\ UNCHANGED <<registry, streams, next_mid, store, crashes, instances, updates, reply, enqueued,
                   insert_log, xdeleted, failed>>

item_ids(items) == [i \in 1..Len(items) |-> items[i].redis_message_id]

\* The end of _flush_key: reset the key's buffer, go on with the next key.
FlushDone ==
    /\ SetBuffers(reset_buffer(WorkerBuffers, Head(keys_to_flush)))
    /\ keys_to_flush' = Tail(keys_to_flush)
    /\ pc' = IF Tail(keys_to_flush) = <<>> THEN "discover" ELSE "insert"
    /\ failed' = [k \in DOMAIN failed \ {Head(keys_to_flush)} |-> failed[k]]

\* Mutant: the store error is swallowed inside _flush_key, which goes on to ack.
InsertFailed_swallowed ==
    /\ pc' = "ack"
    /\ UNCHANGED <<store, insert_log, disc, buffers, key_order, buffer_first_at,
                   buffer_bytes, keys_to_flush, since, failed>>

\* Mutant: the buffer is reset in a finally clause, also when the insert failed.
InsertFailed_reset ==
    /\ LoopError
    /\ SetBuffers(reset_buffer(WorkerBuffers, Head(keys_to_flush)))
    /\ failed' = [k \in DOMAIN failed \cup {Head(keys_to_flush)} |->
                     IF k = Head(keys_to_flush)
                     THEN item_ids(buffers[Head(keys_to_flush)]) ELSE failed[k]]
    /\ UNCHANGED <<store, insert_log>>

\* engine.begin() / conn.execute raises: nothing is committed, nothing is
\* acked, the buffer stays, and run's except takes over.
InsertFailed ==
    /\ LoopError
    /\ failed' = [k \in DOMAIN failed \cup {Head(keys_to_flush)} |->
                     IF k = Head(keys_to_flush)
                     THEN item_ids(buffers[Head(keys_to_flush)]) ELSE failed[k]]
    /\ UNCHANGED <<store, insert_log, buffers, key_order, buffer_first_at, buffer_bytes>>

\* History: the number of bulk inserts committed so far.
batches == IF insert_log = <<>> THEN 0 ELSE insert_log[Len(insert_log)].batch

\* _flush_key up to the end of the transaction.
FlushInsert ==
    /\ pc = "insert"
    /\ LET items == buffers[Head(keys_to_flush)]
       IN  \/ /\ LET tbl == sp_bulk_insert_blogs([rows |-> rows, next_id |-> next_id],
                                                 rows_json(items))
                 IN  /\ rows' = tbl.rows
                     /\ next_id' = tbl.next_id
              /\ insert_log' = insert_log \o
                    [i \in 1..Len(items) |->
                        [mid |-> items[i].redis_message_id,
                         client_msg_id |-> items[i].row.client_msg_id,
                         batch |-> batches + 1]]
              /\ pc' = "ack"
              /\ UNCHANGED <<disc, buffers, key_order, buffer_first_at, buffer_bytes,
                             keys_to_flush, since, faults, failed>>
           \/ /\ Fault
              /\ InsertFailed
    /\ UNCHANGED <<bus, crashes, instances, updates, reply, enqueued, delivered, xdeleted>>

\* Mutant: no try/except around xack and xdel, the error reaches run's except.
AckFailed_raised ==
    /\ LoopError
    /\ UNCHANGED <<buffers, key_order, buffer_first_at, buffer_bytes, failed>>

\* except Exception around xack and xdel: the error is logged, XDEL is skipped
\* and _flush_key goes on to the reset.
AckFailed ==
    /\ FlushDone
    /\ UNCHANGED <<disc, since>>

\* XACK of the key's entries (all of one stream: the key's genre).
FlushAck ==
    /\ pc = "ack"
    /\ LET items == buffers[Head(keys_to_flush)]
           stream == items[1].redis_stream
       IN  \/ /\ groups' = [groups EXCEPT ![stream].pel = @ \ item_mids(items)]
              /\ pc' = "del"
              /\ UNCHANGED <<disc, since, buffers, key_order, buffer_first_at,
                             buffer_bytes, keys_to_flush, faults, failed>>
           \/ /\ Fault
              /\ AckFailed
              /\ UNCHANGED groups
    /\ UNCHANGED <<registry, streams, next_mid, store, crashes, instances, updates, reply,
                   enqueued, insert_log, delivered, xdeleted>>

\* XDEL of the key's entries.
FlushDel ==
    /\ pc = "del"
    /\ LET items == buffers[Head(keys_to_flush)]
           stream == items[1].redis_stream
       IN  \/ /\ streams' = [streams EXCEPT ![stream] =
                                SelectSeq(@, LAMBDA e : e.mid \notin item_mids(items))]
              /\ xdeleted' = xdeleted \cup (item_mids(items) \cap Mids(streams[stream]))
              /\ UNCHANGED faults
           \/ /\ Fault
              /\ UNCHANGED <<streams, xdeleted>>
    /\ FlushDone
    /\ UNCHANGED <<registry, groups, next_mid, store, disc, since, crashes, instances, updates, reply,
                   enqueued, insert_log, delivered>>

\* The consumer process dies and is started again: its memory is lost, the
\* bus and the store keep theirs.
Crash ==
    /\ crashes < MaxCrashes
    /\ crashes' = crashes + 1
    /\ pc' = "discover"
    /\ SetBuffers(NoBuffers)
    /\ keys_to_flush' = <<>>
    /\ disc' = <<>>
    /\ since' = now
    /\ failed' = [k \in {} |-> <<>>]
    /\ UNCHANGED <<bus, store, faults, updates, reply, instances, enqueued, insert_log,
                   delivered, xdeleted>>

(***************************************************************************)
(* Time.                                                                   *)
(***************************************************************************)
ShiftRow(r) == [r EXCEPT !.created_at = ShiftStamp(@), !.updated_at = ShiftStamp(@)]

\* A response carrying a row: its instants seen from the new present.
ShiftReply(r) == IF "blog" \in DOMAIN r THEN [r EXCEPT !.blog = ShiftRow(@)] ELSE r

\* A process that is not the running one, one tick later.
ShiftWorker(w) ==
    [w EXCEPT !.buffers = [k \in Keys |->
                              [i \in 1..Len(w.buffers[k]) |->
                                  [w.buffers[k][i] EXCEPT !.row = ShiftRow(@)]]],
              !.buffer_first_at = [k \in DOMAIN w.buffer_first_at |->
                                      Shift(w.buffer_first_at[k])],
              !.since = IF w.pc \in {"read", "sleep", "nap"} THEN Shift(@) ELSE @]

Tick ==
    \* A pending group read returns at the latest block ms after it began.
    /\ ~(pc = "read" /\ Resp(disc) = <<>> /\ now - since >= block)
    /\ \A i \in 1..Len(instances.idle) :
           ~(instances.idle[i].pc = "read" /\ Resp(instances.idle[i].disc) = <<>>
               /\ now - instances.idle[i].since >= block)
    /\ instances' = [instances EXCEPT !.idle = [i \in 1..Len(@) |-> ShiftWorker(@[i])]]
    /\ streams' = [s \in Streams |->
                      [i \in 1..Len(streams[s]) |->
                          [streams[s][i] EXCEPT !.created_at_iso = ShiftIso(@)]]]
    /\ rows' = {ShiftRow(r) : r \in rows}
    /\ buffers' = [k \in Keys |->
                      [i \in 1..Len(buffers[k]) |->
                          [buffers[k][i] EXCEPT !.row = ShiftRow(@)]]]
    /\ buffer_first_at' = [k \in DOMAIN buffer_first_at |-> Shift(buffer_first_at[k])]
    /\ since' = IF pc \in {"read", "sleep", "nap"} THEN Shift(since) ELSE since
    /\ reply' = ShiftReply(reply)
    /\ UNCHANGED <<registry, groups, next_mid, next_id, pc, disc, key_order,
                   buffer_bytes, keys_to_flush, faults, crashes, updates, hist>>

Next ==
    \/ Enqueue
    \/ Discover
    \/ Wake
    \/ EnsureGroups
    \/ Read
    \/ FlushInsert
    \/ FlushAck
    \/ FlushDel
    \/ Crash
    \/ Tick

Spec == Init /\ [][Next]_vars

\* The pipeline together with the facade's UpdateBlog.
NextApi ==
    \/ Next
    \/ Update

ApiSpec == Init /\ [][NextApi]_vars

\* One step of BlogWorker.run, a single coroutine: whichever await it is at.
Loop ==
    \/ Discover
    \/ Wake
    \/ EnsureGroups
    \/ Read
    \/ FlushInsert
    \/ FlushAck
    \/ FlushDel

\* The consumer loop keeps running and time keeps passing.
Fairness ==
    /\ WF_vars(Loop)
    /\ WF_vars(Tick)

\* The pipeline fed by the requests of one key.
LiveRequests == {r \in Requests : r.genre = "g1" /\ r.location = "l1"}

EnqueueLive == \E req \in LiveRequests : EnqueueBlog(req)

NextLive ==
    \/ EnqueueLive
    \/ Discover
    \/ Wake
    \/ EnsureGroups
    \/ Read
    \/ FlushInsert
    \/ FlushAck
    \/ FlushDel
    \/ Crash
    \/ Tick

LiveSpec == Init /\ [][NextLive]_vars /\ Fairness

(***************************************************************************)
(* Several worker processes in the consumer group.  pc ... since are the   *)
(* state of the process that takes the next step; instances.idle holds the *)
(* state of the others.                                                    *)
(***************************************************************************)
MaxInstances == 2

\* BlogWorker.__init__ followed by run().
NewWorker ==
    [name |-> Len(instances.idle) + 2, pc |-> "discover", disc |-> <<>>, buffers |-> [k \in Keys |-> <<>>],
     key_order |-> <<>>, buffer_first_at |-> [k \in {} |-> 0],
     buffer_bytes |-> [k \in Keys |-> 0], keys_to_flush |-> <<>>, since |-> now]

ThisWorker ==
    [name |-> instances.active, pc |-> pc, disc |-> disc, buffers |-> buffers, key_order |-> key_order,
     buffer_first_at |-> buffer_first_at, buffer_bytes |-> buffer_bytes,
     keys_to_flush |-> keys_to_flush, since |-> since]

\* One more worker process is started.
StartWorker ==
    /\ Len(instances.idle) + 1 < MaxInstances
    /\ instances' = [instances EXCEPT !.idle = Append(@, NewWorker)]
    /\ UNCHANGED <<bus, store, worker, faults, crashes, updates, reply, hist>>

\* Another process takes the next step.
Switch ==
    /\ instances.idle # <<>>
    /\ LET w == Head(instances.idle)
       IN  /\ pc' = w.pc
           /\ disc' = w.disc
           /\ buffers' = w.buffers
           /\ key_order' = w.key_order
           /\ buffer_first_at' = w.buffer_first_at
           /\ buffer_bytes' = w.buffer_bytes
           /\ keys_to_flush' = w.keys_to_flush
           /\ since' = w.since
    /\ instances' = [active |-> Head(instances.idle).name,
                     idle |-> Append(Tail(instances.idle), ThisWorker)]
    /\ UNCHANGED <<bus, store, faults, crashes, updates, reply, hist>>

NextGroup ==
    \/ EnqueueLive
    \/ StartWorker
    \/ Switch
    \/ Discover
    \/ Wake
    \/ EnsureGroups
    \/ Read
    \/ FlushInsert
    \/ FlushAck
    \/ FlushDel
    \/ Tick

GroupSpec == Init /\ [][NextGroup]_vars

(***************************************************************************)
(* Shutdown.  run() is `while True` under asyncio.run(main()) and installs *)
(* no signal handler: SIGTERM ends the process where it is, SIGINT cancels *)
(* the task at the await it is at (CancelledError is not an Exception, so  *)
(* the except clause of the loop does not catch it).                       *)
(***************************************************************************)
Shutdown ==
    /\ pc # "stopped"
    /\ pc' = "stopped"
    /\ SetBuffers(NoBuffers)
    /\ keys_to_flush' = <<>>
    /\ disc' = <<>>
    /\ since' = now
    /\ UNCHANGED <<bus, store, env, hist>>

NextStop ==
    \/ EnqueueLive
    \/ Discover
    \/ Wake
    \/ EnsureGroups
    \/ Read
    \/ FlushInsert
    \/ FlushAck
    \/ FlushDel
    \/ Tick
    \/ Shutdown

StopSpec == Init /\ [][NextStop]_vars

(***************************************************************************)
(* The facade: the requests as callers send them, fields untrimmed, empty  *)
(* or missing, and the pipeline behind them.                               *)
(***************************************************************************)
\* CreateBlogSync: api/main.py calls stub.CreateBlogSync, and DataService
\* defines no such method: the call ends with an error status and nothing
\* else happens.
CreateBlogSync(request) ==
    /\ reply' = UNIMPLEMENTED
    /\ UNCHANGED <<bus, store, worker, faults, crashes, instances, updates, hist>>

\* SELECT ... FROM blogs WHERE id = :id
SELECT_BY_ID_SQL(tbl_rows, id) == {r \in tbl_rows : r.id = id}

GetBlog(request) ==
    /\ IF SELECT_BY_ID_SQL(rows, request.id) = {}
       THEN reply' = NOT_FOUND
       ELSE reply' = [code |-> "OK",
                      blog |-> CHOOSE r \in SELECT_BY_ID_SQL(rows, request.id) : TRUE]
    /\ UNCHANGED <<bus, store, worker, faults, crashes, instances, updates, hist>>

\* The orders ORDER BY created_at DESC can produce of a set of rows.
order_by_created_at_desc(matching) ==
    {o \in [1..Cardinality(matching) -> matching] :
        /\ \A i, j \in DOMAIN o : i < j => o[i] # o[j] /\ o[i].created_at >= o[j].created_at}

\* SELECT_LIST_SQL: the filters that are not NULL combined with AND, then
\* ORDER BY created_at DESC LIMIT :limit OFFSET :offset.  The results the
\* statement can produce, as sequences of ids.
SELECT_LIST_SQL(tbl_rows, params) ==
    LET matching == {r \in tbl_rows :
                        /\ params.author = <<>> \/ r.author = params.author[1]
                        /\ params.genre = <<>> \/ r.genre = params.genre[1]
                        /\ params.location = <<>> \/ r.location = params.location[1]}
    IN  {[i \in 1..Len(SubSeq(o, params.offset + 1,
                              Min(Len(o), params.offset + params.limit))) |->
              o[params.offset + i].id] :
            o \in order_by_created_at_desc(matching)}

\* x or None
or_None(x) == IF x = "" THEN <<>> ELSE <<x>>

limit_default == 50

\* params of ListBlogs: request.limit or 50, request.offset or 0.
list_params(request) ==
    [author |-> or_None(request.author),
     genre |-> or_None(request.genre),
     location |-> or_None(request.location),
     limit |-> IF request.limit # 0 THEN request.limit ELSE limit_default,
     offset |-> request.offset]

\* The response records the LIMIT and OFFSET the statement was run with.  A
\* negative LIMIT or OFFSET is a syntax error of the store: conn.execute
\* raises and the call ends UNKNOWN.
ListBlogs(request) ==
    LET params == list_params(request)
    IN  /\ IF params.limit < 0 \/ params.offset < 0
           THEN reply' = [code |-> "UNKNOWN", limit |-> params.limit,
                          offset |-> params.offset]
           ELSE \E result \in SELECT_LIST_SQL(rows, params) :
                   reply' = [code |-> "OK", blogs |-> result,
                             limit |-> params.limit, offset |-> params.offset]
        /\ UNCHANGED <<bus, store, worker, faults, crashes, instances, updates, hist>>

limit_max == 500

VALIDATION_ERROR == [code |-> "HTTP_422"]

\* GET /blogs: limit: int = Query(default=50, ge=1, le=500),
\* offset: int = Query(default=0, ge=0); a query parameter is <<>> when absent.
list_blogs(query) ==
    LET limit == IF query.limit = <<>> THEN limit_default ELSE query.limit[1]
        offset == IF query.offset = <<>> THEN 0 ELSE query.offset[1]
    IN  IF limit < 1 \/ limit > limit_max \/ offset < 0
        THEN /\ reply' = VALIDATION_ERROR
             /\ UNCHANGED <<bus, store, worker, faults, crashes, instances, updates, hist>>
        ELSE ListBlogs([author |-> "", genre |-> query.genre, location |-> "",
                        limit |-> limit, offset |-> offset])

\* DELETE FROM blogs WHERE id = :id
DELETE_SQL(tbl_rows, id) == {r \in tbl_rows : r.id # id}

\* CALL sp_delete_blog(:id): the store's single delete.
sp_delete_blog(tbl_rows, id) == DELETE_SQL(tbl_rows, id)

\* Mutant: the count is not read from the result: one row is assumed.
ROW_COUNT_one(before, after) == 1

\* The affected count the store reports for a statement.
ROW_COUNT(before, after) == Cardinality(before \ after)

DeleteBlog(request) ==
    LET after == sp_delete_blog(rows, request.id)
        deleted == ROW_COUNT(rows, after)
    IN  /\ IF deleted = 0
           THEN \* context.abort inside engine.begin(): the transaction rolls back.
                reply' = NOT_FOUND /\ rows' = rows
           ELSE reply' = [code |-> "OK", deleted |-> TRUE] /\ rows' = after
        /\ UNCHANGED <<bus, next_id, worker, faults, crashes, instances, updates, hist>>

\* CALL sp_bulk_delete_blogs(:ids_json): deletes the rows whose id is in the
\* list.
sp_bulk_delete_blogs(tbl_rows, ids_json) == {r \in tbl_rows : r.id \notin Range(ids_json)}

\* Mutant: the check of ids is left out.
ids_required_never(ids) == FALSE

\* if not ids
ids_required(ids) == ids = <<>>

\* deleted_count is the field deleted of BulkDeleteResponse, a count, named
\* apart from the flag deleted of DeleteBlogResponse.
BulkDelete(request) ==
    LET ids == request.ids
        after == sp_bulk_delete_blogs(rows, ids)
    IN  /\ IF ids_required(ids)
           THEN reply' = INVALID_ARGUMENT /\ rows' = rows
           ELSE reply' = [code |-> "OK", deleted_count |-> ROW_COUNT(rows, after)] /\ rows' = after
        /\ UNCHANGED <<bus, next_id, worker, faults, crashes, instances, updates, hist>>

\* CALL sp_bulk_update_blogs(:ids_json, :genre, :location, :content): sets, on
\* the rows whose id is in the list, each field given non-empty.
sp_bulk_update_blogs(tbl_rows, ids_json, genre, location, content) ==
    {IF r.id \in Range(ids_json)
     THEN [r EXCEPT !.genre = IF genre # "" THEN genre ELSE @,
                    !.location = IF location # "" THEN location ELSE @,
                    !.content = IF content # "" THEN content ELSE @]
     ELSE r : r \in tbl_rows}

\* if not (request.genre or request.location or request.content)
no_fields(request) == request.genre = "" /\ request.location = "" /\ request.content = ""

\* updates counts the calls that reached the store; updated_count is the
\* field updated of BulkUpdateResponse.
BulkUpdate(request) ==
    LET ids == request.ids
        after == sp_bulk_update_blogs(rows, ids, request.genre, request.location,
                                      request.content)
    IN  /\ updates < MaxUpdates
        /\ IF ids_required(ids) \/ no_fields(request)
           THEN reply' = INVALID_ARGUMENT /\ UNCHANGED <<rows, updates>>
           ELSE /\ reply' = [code |-> "OK",
                              updated_count |-> Cardinality({r \in rows : r.id \in Range(ids)})]
                /\ rows' = after
                /\ updates' = updates + 1
        /\ UNCHANGED <<bus, next_id, worker, faults, crashes, instances, hist>>

(***************************************************************************)
(* The calls of the facade.                                                *)
(***************************************************************************)
SyncRequests ==
    [client_msg_id : {"m2"}, author : {"a"}, content : {"c"}, genre : {"g1"},
     location : {"l1"}, created_at_iso : {<<>>}]

CreateSync == \E request \in SyncRequests : CreateBlogSync(request)

Ids == 1..MaxEntries

Get == \E request \in [id : Ids] : GetBlog(request)

ListRequests ==
    [author : {""}, genre : {"g1"}, location : {""}, limit : {-1, 0, 1, 501},
     offset : {0}]
        \cup [author : {""}, genre : {""}, location : {""}, limit : {1}, offset : {-1}]

List == \E request \in ListRequests : ListBlogs(request)

ListQueries ==
    [genre : {""}, limit : {<<>>, <<0>>, <<500>>, <<501>>}, offset : {<<>>}]
        \cup [genre : {""}, limit : {<<>>}, offset : {<<-1>>}]

ListHttp == \E query \in ListQueries : list_blogs(query)

Delete == \E request \in [id : Ids] : DeleteBlog(request)

BulkDeleteRequests == [ids : {<<>>, <<1>>, <<1, 2>>}]

BulkDel == \E request \in BulkDeleteRequests : BulkDelete(request)

BulkUpdateRequests ==
    [ids : {<<>>, <<1, 2>>}, genre : {"", "g2"}, location : {""}, content : {"", "new"}]

BulkUpd == \E request \in BulkUpdateRequests : BulkUpdate(request)

RawRequests ==
    {r \in [client_msg_id : {"m1"}, author : {"a", " "}, content : {"c", ""},
            genre : {"g1", " g1 ", ""}, location : {"l1", "\t"},
            created_at_iso : {<<>>}] : TRUE}

EnqueueRaw == \E request \in RawRequests : EnqueueBlog(request)

NextFacade ==
    \/ EnqueueRaw
    \/ Discover
    \/ Wake
    \/ EnsureGroups
    \/ Read
    \/ FlushInsert
    \/ FlushAck
    \/ FlushDel
    \/ Tick

FacadeSpec == Init /\ [][NextFacade]_vars

\* The calls that change the store, and GetBlog, over a store the pipeline fills from two
\* requests of one key: one under the caller's client_msg_id, one carrying a
\* created_at_iso of its own, later than the present.
StoreRequests ==
    {[client_msg_id |-> "m1", author |-> "a", content |-> "c", genre |-> "g1",
      location |-> "l1", created_at_iso |-> <<>>],
     [client_msg_id |-> "", author |-> "a", content |-> "c", genre |-> "g1",
      location |-> "l1", created_at_iso |-> <<1>>]}

EnqueueStore == \E request \in StoreRequests : EnqueueBlog(request)

NextStore ==
    \/ EnqueueStore
    \/ Discover
    \/ Wake
    \/ EnsureGroups
    \/ Read
    \/ FlushInsert
    \/ FlushAck
    \/ FlushDel
    \/ Tick
    \/ Get
    \/ Update
    \/ Delete
    \/ BulkDel
    \/ BulkUpd

StoreSpec == Init /\ [][NextStore]_vars

\* The calls that read, over the same store.
NextQuery ==
    \/ EnqueueStore
    \/ Discover
    \/ Wake
    \/ EnsureGroups
    \/ Read
    \/ FlushInsert
    \/ FlushAck
    \/ FlushDel
    \/ Tick
    \/ CreateSync
    \/ Get
    \/ List
    \/ ListHttp

QuerySpec == Init /\ [][NextQuery]_vars

(***************************************************************************)
(* The claims.                                                             *)
(***************************************************************************)
FlushPcs == {"insert", "ack", "del"}

\* The entry ids whose record a bulk insert has committed.
Committed == {insert_log[i].mid : i \in 1..Len(insert_log)}

\* The entry ids delivered to a consumer and no longer pending: XACKed.
Acked == {m \in DOMAIN delivered : \A s \in Streams : m \notin groups[s].pel}

Buffered == UNION {item_mids(buffers[k]) : k \in Keys}

IsPrefix(p, q) == Len(p) <= Len(q) /\ SubSeq(q, 1, Len(p)) = p

\* C1: an entry is acked (XACK) or deleted (XDEL) by the worker only after the
\* bulk insert carrying its record has committed.
C1_AckAfterCommit == (Acked \cup xdeleted) \subseteq Committed

C1_Witness == Acked # {} /\ xdeleted # {}

\* C2: a failed bulk insert acks and deletes nothing and leaves the key's
\* buffer list, first_at and byte accumulator as they were; the same entries,
\* in the same order, head the key's buffer until they are flushed, and the
\* key is flushed again at the next flush evaluation.
C2_FailedInsertKeepsBuffer ==
    /\ [][pc = "insert" /\ pc' = "sleep" =>
            /\ buffers' = buffers
            /\ buffer_first_at' = buffer_first_at
            /\ buffer_bytes' = buffer_bytes
            /\ groups' = groups
            /\ streams' = streams]_vars
    /\ [](\A k \in DOMAIN failed : IsPrefix(failed[k], item_ids(buffers[k])))
    /\ [][pc = "read" /\ pc' \in {"insert", "discover"} /\ crashes' = crashes =>
            \A k \in DOMAIN failed : k \in Range(keys_to_flush')]_vars

C2_Witness ==
    /\ pc = "insert"
    /\ Head(keys_to_flush) \in DOMAIN failed
    /\ item_mids(buffers[Head(keys_to_flush)]) \cap Acked = {}

\* An entry the stream's length cap evicted before any consumer read it.
Lost(m) ==
    /\ m < next_mid
    /\ m \notin DOMAIN delivered
    /\ \A s \in Streams : m \notin Mids(streams[s])

\* The record of entry m is a row of the store.
Stored(m) == \E r \in rows : r.client_msg_id = enqueued[m]

\* C3: with the consumer process staying up and finitely many bus and store
\* failures, the record of every entry EnqueueBlog appended is eventually a
\* row of the store, unless the stream's length cap evicted it before it was delivered.
C3_EnqueuedEventuallyStored ==
    <>[](crashes = 0 => \A m \in 1..Len(enqueued) : Stored(m) \/ Lost(m))

\* An entry whose bulk insert was retried after a failure is committed.
C3_Witness ==
    /\ crashes = 0
    /\ faults > 0
    /\ failed = <<>>
    /\ \E m \in 1..Len(enqueued) : Stored(m) /\ m \in Committed

\* C3 as stated: with the consumer process staying up, the record of every
\* appended entry is eventually a row of the store.
C3_Original ==
    <>[](crashes = 0 => \A m \in 1..Len(enqueued) : Stored(m))

\* Entry m was delivered to a consumer process that has died since.
Orphaned(m) ==
    /\ m \in DOMAIN delivered
    /\ delivered[m].consumer <= crashes

\* C4: the record of an entry delivered to a consumer process that died before
\* committing it is eventually a row of the store, once a consumer of the
\* group runs again.
C4_RedeliveredAfterCrash ==
    <>[](\A m \in 1..Len(enqueued) : Orphaned(m) => Stored(m))

\* The copies of a client_msg_id that bulk inserts have committed.
Copies(c) == {i \in 1..Len(insert_log) : insert_log[i].client_msg_id = c}

\* C5: however many copies of a client_msg_id have been flushed, in one bulk
\* insert or in several, the store holds exactly one row with it.
C5_OneRowPerClientMsgId ==
    \A i \in 1..Len(insert_log) :
        Cardinality({r \in rows : r.client_msg_id = insert_log[i].client_msg_id}) = 1

\* Two copies of one client_msg_id, flushed by different bulk inserts.
C5_Witness ==
    \E i, j \in 1..Len(insert_log) :
        /\ insert_log[i].mid # insert_log[j].mid
        /\ insert_log[i].client_msg_id = insert_log[j].client_msg_id
        /\ insert_log[i].batch # insert_log[j].batch

\* Every row of before is a row of after, with the same id and created_at.
KeepsCreatedAt ==
    \A r \in rows : \E q \in rows' : q.id = r.id /\ q.created_at = r.created_at

\* Every row of before is a row of after, changed in updated_at at most.
KeepsAllButUpdatedAt ==
    \A r \in rows : \E q \in rows' : q = [r EXCEPT !.updated_at = q.updated_at]

\* C6: neither a bulk insert (duplicates included) nor UpdateBlog changes an
\* existing row's created_at; a bulk insert leaves every column of an existing
\* row but updated_at as it was.  (A step of time only re-expresses the
\* instants relative to the new present.)
C6_CreatedAtFrame ==
    [][/\ Tick \/ KeepsCreatedAt
       /\ pc = "insert" /\ pc' = "ack" => KeepsAllButUpdatedAt]_vars

\* A row that absorbed a duplicate insert and was then updated by UpdateBlog.
C6_Witness ==
    \E r \in rows :
        /\ Cardinality(Copies(r.client_msg_id)) > 1
        /\ r.content = "new"
        /\ r.updated_at # r.created_at

\* C7: once a key's bulk insert has committed, its flush ends with the key's
\* buffer list empty, its first_at absent and its byte accumulator zero, also
\* when XACK or XDEL fails; committed items are in a buffer only while their
\* own flush is acking them, and no entry is committed twice.
C7_ResetAfterCommit ==
    /\ [][(pc \in {"ack", "del"}) /\ pc' \notin {"ack", "del"} /\ crashes' = crashes =>
            (/\ pc' \in {"insert", "discover"}
             /\ buffers'[Head(keys_to_flush)] = <<>>
             /\ Head(keys_to_flush) \notin DOMAIN buffer_first_at'
             /\ buffer_bytes'[Head(keys_to_flush)] = 0)]_vars
    /\ [](\A k \in Keys :
            item_mids(buffers[k]) \cap Committed # {} =>
                pc \in {"ack", "del"} /\ k = Head(keys_to_flush))
    /\ [](\A i, j \in 1..Len(insert_log) :
            insert_log[i].mid = insert_log[j].mid => i = j)

\* The XACK of a committed entry failed: the entry is still pending in the
\* group, its flush is over, and the consumer is back at its read.
C7_Witness ==
    /\ crashes = 0
    /\ pc = "read"
    /\ \E m \in Committed \ Buffered : \E s \in Streams : m \in groups[s].pel

\* Entries m1 and m2 of one stream, m1 appended first, both delivered to the
\* same consumer process.
SameStreamInOrder(m1, m2) ==
    /\ m1 < m2
    /\ delivered[m1].stream = delivered[m2].stream
    /\ delivered[m1].consumer = delivered[m2].consumer

\* Entry m is committed before position i of the commit log.
CommittedBefore(m, i) == \E j \in 1..(i - 1) : insert_log[j].mid = m

\* C8: for entries of one stream delivered to one consumer process and
\* carrying the same location (the same buffer key), the one appended first is
\* committed first: by an earlier bulk insert, or earlier in the same one.
C8_FifoPerKey ==
    \A i \in 1..Len(insert_log) : \A m1 \in DOMAIN delivered :
        (/\ SameStreamInOrder(m1, insert_log[i].mid)
         /\ delivered[m1].key = delivered[insert_log[i].mid].key)
            => CommittedBefore(m1, i)

\* Two entries of one key, committed by different bulk inserts of one process.
C8_Witness ==
    \E i, j \in 1..Len(insert_log) :
        /\ SameStreamInOrder(insert_log[i].mid, insert_log[j].mid)
        /\ delivered[insert_log[i].mid].key = delivered[insert_log[j].mid].key
        /\ insert_log[i].batch < insert_log[j].batch

\* C8 as stated: the same whatever the locations of the two records.
C8_Original ==
    \A i \in 1..Len(insert_log) : \A m1 \in DOMAIN delivered :
        SameStreamInOrder(m1, insert_log[i].mid) => CommittedBefore(m1, i)

\* A step of run from the return of the group read to the choice of the keys
\* to flush.
Evaluation == pc = "read" /\ pc' \in {"insert", "discover"} /\ crashes' = crashes

\* The key's first item was buffered at least batch_max_age_ms ago.
Aged(k) ==
    /\ buffers[k] # <<>>
    /\ now - buffers[k][1].row.updated_at >= batch_max_age_ms

\* Some item of the key is not committed yet.
Unflushed(k) == item_mids(buffers[k]) \ Committed # {}

\* C9: a key whose first item is batch_max_age_ms old is chosen at the next
\* evaluation, whatever the other keys hold; the chosen keys are flushed one
\* after the other in that iteration (a key leaves the list committed, or a
\* failure ends the iteration); and a read with nothing to deliver delays the
\* evaluation by block at most.  The time the calls themselves take is not
\* bounded.
C9_AgedKeyFlushed ==
    /\ [][Evaluation => \A k \in Keys : Aged(k)' => k \in Range(keys_to_flush')]_vars
    /\ [][(pc \in FlushPcs) /\ crashes' = crashes =>
            \/ keys_to_flush' = keys_to_flush /\ pc' \in FlushPcs
            \/ /\ keys_to_flush' = Tail(keys_to_flush)
               /\ item_mids(buffers[Head(keys_to_flush)]) \subseteq Committed
               /\ pc' = IF keys_to_flush' = <<>> THEN "discover" ELSE "insert"
            \/ faults' # faults /\ pc' = "sleep"]_vars
    /\ [](pc = "read" /\ Resp(disc) = <<>> => now - since <= block)
    /\ [](\A k \in Keys : buffers[k] # <<>> =>
            /\ k \in DOMAIN buffer_first_at
            /\ Min(now - buffer_first_at[k], StampHorizon)
                   = now - buffers[k][1].row.updated_at)

\* Two keys are chosen together, the first of them by its age alone, with no
\* failure so far.
C9_Witness ==
    /\ pc = "insert"
    /\ faults = 0
    /\ crashes = 0
    /\ Len(keys_to_flush) = 2
    /\ Aged(Head(keys_to_flush))
    /\ Len(buffers[Head(keys_to_flush)]) < batch_max_count
    /\ buffer_bytes[Head(keys_to_flush)] < batch_max_bytes

\* C9 as stated: with no failure, no key holds an unflushed item longer than
\* batch_max_age_ms + block after its first item was buffered.
C9_Original ==
    faults = 0 /\ crashes = 0 =>
        \A k \in Keys :
            Unflushed(k) => now - buffer_first_at[k] <= batch_max_age_ms + block

RECURSIVE SumBytes(_)
SumBytes(items) ==
    IF items = <<>> THEN 0
    ELSE Len(Head(items).row.content) + Len(Head(items).row.author)
            + Len(Head(items).row.location) + Len(Head(items).row.genre)
            + approx_overhead + SumBytes(Tail(items))

\* The flush condition as the contract words it.
Eligible(b, k) ==
    /\ b.buffers[k] # <<>>
    /\ \/ Len(b.buffers[k]) >= batch_max_count
       \/ now - b.buffer_first_at[k] >= batch_max_age_ms
       \/ SumBytes(b.buffers[k]) >= batch_max_bytes

\* C10: _should_flush(key) is true exactly when the key's buffer is not empty
\* and its item count is >= batch_max_count, or its first item is
\* >= batch_max_age_ms old, or the approximate bytes of its items are
\* >= batch_max_bytes; the keys run flushes are exactly those; an empty
\* buffer is never flushed.
C10_ShouldFlushExact ==
    /\ [](\A k \in Keys : _should_flush(WorkerBuffers, k) <=> Eligible(WorkerBuffers, k))
    /\ [][Evaluation =>
            \A k \in Keys : k \in Range(keys_to_flush') <=> Eligible(WorkerBuffers, k)']_vars
    /\ [](pc \in FlushPcs => buffers[Head(keys_to_flush)] # <<>>)

\* batch_max_count items are chosen for flush before their age expires and
\* below the byte threshold.
C10_Witness ==
    /\ pc = "insert"
    /\ Len(buffers[Head(keys_to_flush)]) = batch_max_count
    /\ now - buffer_first_at[Head(keys_to_flush)] < batch_max_age_ms
    /\ buffer_bytes[Head(keys_to_flush)] < batch_max_bytes

Blank(s) == \A i \in 1..Len(s) : SubSeq(s, i, i) \in Whitespace

Rejected(request) ==
    Blank(request.author) \/ Blank(request.genre) \/ Blank(request.location)
        \/ request.content = ""

\* C12: EnqueueBlog answers INVALID_ARGUMENT to exactly the requests in which
\* author, genre or location is empty after trimming or content is empty, and
\* such a request leaves the bus as it was: the category registry gains no
\* member and no stream gains an entry.
C12_RejectedChangesNothing ==
    [][\A request \in RawRequests :
          EnqueueBlog(request) =>
              IF Rejected(request)
              THEN /\ reply' = INVALID_ARGUMENT
                   /\ registry' = registry
                   /\ streams' = streams
                   /\ next_mid' = next_mid
              ELSE reply' # INVALID_ARGUMENT]_vars

C12_Witness ==
    /\ reply = INVALID_ARGUMENT
    /\ registry # {}
    /\ \E s \in Streams : streams[s] # <<>>

\* The genre of a stream name.
genre_of(s) == CHOOSE g \in Genres : stream_for_genre(g) = s

\* C13: EnqueueBlog registers the trimmed genre before it appends, and appends
\* one entry to the stream of that genre and to no other; so every stream
\* holding an entry has its genre in the registry, also when the append
\* failed after the registry add.
C13_RegisteredBeforeAppend ==
    /\ [](\A s \in Streams : streams[s] # <<>> => genre_of(s) \in registry)
    /\ [](\A g \in registry : g \in Genres /\ strip(g) = g)
    /\ [][next_mid' # next_mid =>
            \E s \in Streams :
                /\ genre_of(s) \in registry'
                /\ next_mid' = next_mid + 1
                /\ streams'[s] # <<>>
                /\ streams'[s][Len(streams'[s])].mid = next_mid
                /\ streams'[s][Len(streams'[s])].genre = genre_of(s)
                /\ \E evicted \in 0..Len(streams[s]) :
                       streams'[s] =
                           SubSeq(Append(streams[s], streams'[s][Len(streams'[s])]),
                                  evicted + 1, Len(streams[s]) + 1)
                /\ \A t \in Streams \ {s} : streams'[t] = streams[t]]_vars

\* The registry add succeeded and the append failed: the genre is advertised
\* and its stream is empty.
C13_Witness ==
    /\ reply = UNKNOWN
    /\ next_mid = 1
    /\ registry = {"g1"}
    /\ streams[stream_for_genre("g1")] = <<>>

\* C14: a sync create of a valid record inserts one row in the store, returns
\* the id of that row, leaves the category registry and every stream as they
\* were, and a GetBlog of the returned id right after finds the record.
C14_SyncCreateInserts ==
    [][\A request \in SyncRequests :
          CreateBlogSync(request) =>
              /\ reply'.code = "OK"
              /\ \E r \in rows' \ rows :
                     /\ rows' = rows \cup {r}
                     /\ r.id = reply'.id
                     /\ r.client_msg_id = request.client_msg_id
                     /\ r.content = request.content
                     /\ SELECT_BY_ID_SQL(rows', reply'.id) = {r}
              /\ registry' = registry
              /\ streams' = streams]_vars

\* C15: every row of the store has updated_at >= created_at, whatever
\* created_at_iso the ingest requests and whatever updated_at_iso the
\* UpdateBlog requests carried.
C15_UpdatedNotBeforeCreated == \A r \in rows : r.updated_at >= r.created_at

\* C16: BulkDelete with no ids, BulkUpdate with no ids and BulkUpdate with
\* genre, location and content all empty are answered INVALID_ARGUMENT and
\* leave the store as it was.
C16_BulkValidation ==
    [][/\ \A request \in BulkDeleteRequests :
             request.ids = <<>> /\ BulkDelete(request) =>
                 reply' = INVALID_ARGUMENT /\ rows' = rows /\ next_id' = next_id
       /\ \A request \in BulkUpdateRequests :
             /\ \/ request.ids = <<>>
                \/ request.genre = "" /\ request.location = "" /\ request.content = ""
             /\ BulkUpdate(request)
             => reply' = INVALID_ARGUMENT /\ rows' = rows /\ next_id' = next_id]_vars

C16_Witness == reply = INVALID_ARGUMENT /\ Cardinality(rows) = 2

\* The limit the claim has a list call served with.
clamped(limit) == IF limit < 1 THEN 1 ELSE IF limit > limit_max THEN limit_max ELSE limit

\* The call was rejected before any statement, or served by a statement run
\* with the clamped limit and the offset asked for.
served(limit, offset) ==
    IF offset < 0
    THEN reply'.code # "OK" /\ "limit" \notin DOMAIN reply'
    ELSE /\ reply'.code = "OK"
         /\ reply'.limit = limit
         /\ reply'.offset = offset

\* C17: ListBlogs serves a limit below 1 with limit 1, a limit above 500 with
\* limit 500, an unspecified limit with 50, rejects a negative offset, and
\* sends the store no statement with a limit outside [1, 500] or a negative
\* offset: for the gRPC call, where limit 0 is the unspecified one, and for
\* GET /blogs.
C17_LimitClamped ==
    [][/\ \A request \in ListRequests :
             ListBlogs(request) =>
                 served(IF request.limit = 0 THEN limit_default ELSE clamped(request.limit),
                        request.offset)
       /\ \A query \in ListQueries :
             list_blogs(query) =>
                 served(IF query.limit = <<>> THEN limit_default ELSE clamped(query.limit[1]),
                        IF query.offset = <<>> THEN 0 ELSE query.offset[1])]_vars

\* No row of the store has this id.
Absent(tbl_rows, id) == \A r \in tbl_rows : r.id # id

IdleBuffered(i) == UNION {item_mids(instances.idle[i].buffers[k]) : k \in Keys}

\* The step is one of the running process, not the start of a process or a
\* switch to another.
SameProcess == instances' = instances

Inserts(m) == {i \in 1..Len(insert_log) : insert_log[i].mid = m}

\* Nothing is in a stream, pending or buffered: the processes have flushed
\* all they were delivered.
Drained ==
    /\ \A s \in Streams : streams[s] = <<>> /\ groups[s].pel = {}
    /\ Buffered = {}
    /\ \A i \in 1..Len(instances.idle) : IdleBuffered(i) = {}

\* An entry is in the buffer of one process at most, a process buffers only
\* entries never delivered before, bulk-inserts only entries of its own
\* buffer, and acks and deletes only committed entries of its own buffer.
C19_Owned ==
    /\ [](\A i \in 1..Len(instances.idle) :
            /\ Buffered \cap IdleBuffered(i) = {}
            /\ \A j \in 1..Len(instances.idle) :
                   i # j => IdleBuffered(i) \cap IdleBuffered(j) = {})
    /\ [][SameProcess =>
            /\ \A m \in Buffered' \ Buffered : m \notin DOMAIN delivered
            /\ \A i \in Len(insert_log) + 1..Len(insert_log') :
                   insert_log'[i].mid \in Buffered
            /\ \A m \in (Acked' \cup xdeleted') \ (Acked \cup xdeleted) :
                   m \in Buffered /\ m \in Committed]_vars

\* C19: with several worker processes in the consumer group, an entry is
\* buffered by one process at most, a process acks and deletes only entries
\* it has bulk-inserted itself, and with no failure the record of an entry
\* is never bulk-inserted twice and, once the processes have flushed all
\* they were delivered, the record of every entry delivered to one of them
\* has been bulk-inserted exactly once.
C19_ExactlyOnceAcrossInstances ==
    /\ C19_Owned
    /\ [](faults = 0 =>
            /\ \A m \in 1..next_mid - 1 : Cardinality(Inserts(m)) <= 1
            /\ Drained => \A m \in DOMAIN delivered : Cardinality(Inserts(m)) = 1)

\* Two processes hold an entry each, with no failure so far.
C19_Witness ==
    /\ faults = 0
    /\ Buffered # {}
    /\ \E i \in 1..Len(instances.idle) : IdleBuffered(i) # {}

\* C19 as stated: with no failure, once the processes have flushed all they
\* were delivered, the record of every entry, delivered or not, has been
\* bulk-inserted exactly once.
C19_Original ==
    faults = 0 /\ Drained => \A m \in 1..next_mid - 1 : Cardinality(Inserts(m)) = 1

\* C20: the worker loop stops only at the top of an iteration: a flush in
\* flight when shutdown is requested runs to completion, commit followed by
\* ack, before the loop stops.
C20_FlushCompletesBeforeStop ==
    [][pc' = "stopped" /\ pc # "stopped" => pc \notin FlushPcs]_vars

\* The ids of a key's entries rise along s: within one stream the bus returns
\* entries in the order of their ids, so this is the order of arrival.
Rising(s) == \A i, j \in 1..Len(s) : i < j => s[i] < s[j]

\* The row holding the record of a buffered item.
RowOf(tbl_rows, item) ==
    CHOOSE r \in tbl_rows : r.client_msg_id = item.row.client_msg_id

\* Item i is the first of the list to carry its client_msg_id.
FirstOf(items, i) ==
    \A h \in 1..(i - 1) : items[h].row.client_msg_id # items[i].row.client_msg_id

\* C21: within a key the buffer holds the items in the order the bus returned
\* them, new items go behind the ones already there (also behind those a
\* failed flush left), and a bulk insert lists the items in that order: the
\* commit log follows the buffer, and the rows of records new to the store
\* get their ids in that order (a record the list carries twice, at its
\* first place).
C21_PayloadInArrivalOrder ==
    /\ [](\A k \in Keys : Rising(item_ids(buffers[k])))
    /\ [][crashes' = crashes /\ instances' = instances =>
            \A k \in Keys :
                buffers'[k] # <<>> =>
                    IsPrefix(item_ids(buffers[k]), item_ids(buffers'[k]))]_vars
    /\ [][(pc = "insert") /\ insert_log' # insert_log =>
            LET items == buffers[Head(keys_to_flush)]
            IN  /\ SubSeq(insert_log', Len(insert_log) + 1, Len(insert_log')) =
                       [i \in 1..Len(items) |->
                           [mid |-> items[i].redis_message_id,
                            client_msg_id |-> items[i].row.client_msg_id,
                            batch |-> batches + 1]]
                /\ \A i, j \in 1..Len(items) :
                       /\ i < j
                       /\ FirstOf(items, i)
                       /\ FirstOf(items, j)
                       /\ \A r \in rows : r.client_msg_id \notin
                              {items[i].row.client_msg_id, items[j].row.client_msg_id}
                       => RowOf(rows', items[i]).id < RowOf(rows', items[j]).id]_vars

\* A flush failed on one item, a second item of the key arrived behind it,
\* and the two were committed by one bulk insert.
C21_Witness ==
    /\ pc = "ack"
    /\ Head(keys_to_flush) \in DOMAIN failed
    /\ Len(failed[Head(keys_to_flush)]) = 1
    /\ Len(buffers[Head(keys_to_flush)]) = 2
    /\ Cardinality(rows) = 2

\* An iteration of run ends at its ensure or its read: the step leaves both.
LeavesRead == (pc \in {"ensure", "read"}) /\ pc' \notin {"ensure", "read"} /\ crashes' = crashes

\* The iteration was cut short by run's except: nothing is chosen, buffered or
\* committed, and the loop sleeps.
CutShort ==
    /\ faults' # faults
    /\ pc' = "sleep"
    /\ keys_to_flush' = <<>>
    /\ \A k \in Keys : item_ids(buffers'[k]) = item_ids(buffers[k])
    /\ insert_log' = insert_log

\* The keys of chosen are distinct and follow one another as they do in order.
InOrderOf(chosen, order) ==
    \A i, j \in 1..Len(chosen) :
        i < j => \E a, b \in 1..Len(order) : a < b /\ order[a] = chosen[i] /\ order[b] = chosen[j]

\* C22: in an iteration whose group ensure and group read succeed, every
\* existing key is evaluated after the read, whether or not the read returned
\* messages, and exactly the eligible keys are chosen, in the order the keys
\* were created; the chosen keys are flushed one after the other in that
\* iteration, up to the first flush whose store call fails; an iteration
\* whose ensure or read fails evaluates no key: it sleeps and starts again.
C22_EvaluatedAfterEveryRead ==
    /\ [][LeavesRead => Evaluation \/ CutShort]_vars
    /\ [][Evaluation =>
            /\ \A k \in Keys : k \in Range(keys_to_flush') <=> Eligible(WorkerBuffers, k)'
            /\ InOrderOf(keys_to_flush', key_order')]_vars
    /\ [](\A k \in Keys : buffers[k] # <<>> => k \in Range(key_order))
    /\ [][(pc \in FlushPcs) /\ crashes' = crashes /\ faults' = faults =>
            \/ keys_to_flush' = keys_to_flush /\ pc' \in FlushPcs
            \/ /\ keys_to_flush' = Tail(keys_to_flush)
               /\ item_mids(buffers[Head(keys_to_flush)]) \subseteq Committed
               /\ pc' = IF keys_to_flush' = <<>> THEN "discover" ELSE "insert"]_vars

\* A read that returned nothing was followed by the choice of a key that had
\* been waiting for its age: its one item, below the count and byte
\* thresholds, is all the process has buffered, and nothing was flushed yet.
C22_Witness ==
    /\ pc = "insert"
    /\ faults = 0
    /\ crashes = 0
    /\ Len(keys_to_flush) = 1
    /\ Len(buffers[Head(keys_to_flush)]) = 1
    /\ buffer_bytes[Head(keys_to_flush)] < batch_max_bytes
    /\ \A k \in Keys \ {Head(keys_to_flush)} : buffers[k] = <<>>
    /\ insert_log = <<>>

\* C22 as stated: whatever ends the ensure or the read of an iteration, every
\* eligible key is chosen for flush.
C22_Original ==
    [][LeavesRead => \A k \in Keys : Eligible(WorkerBuffers, k)' => k \in Range(keys_to_flush')]_vars

(***************************************************************************)
(* A record the store rejects on every attempt.                            *)
(***************************************************************************)
\* author VARCHAR(128) NOT NULL, scaled to the authors of the model.
author_width == 1

\* The store refuses the payload: some author does not fit its column
\* (strict SQL mode, "Data too long for column").
too_long(payload) == \E i \in 1..Len(payload) : Len(payload[i].author) > author_width

\* _flush_key's transaction when the store checks the column widths: the
\* call raises for a payload it refuses, every time it is tried.
FlushStore ==
    /\ pc = "insert"
    /\ IF too_long(rows_json(buffers[Head(keys_to_flush)]))
       THEN /\ InsertFailed
            /\ UNCHANGED <<bus, faults, crashes, instances, updates, reply, enqueued,
                           delivered, xdeleted>>
       ELSE FlushInsert

\* One caller sends an author of two characters for key (g1, l1), another a
\* well-formed record for key (g1, l2).
PoisonRequests ==
    {[client_msg_id |-> "m1", author |-> "aa", content |-> "c", genre |-> "g1",
      location |-> "l1", created_at_iso |-> <<>>],
     [client_msg_id |-> "m2", author |-> "a", content |-> "c", genre |-> "g1",
      location |-> "l2", created_at_iso |-> <<>>]}

EnqueuePoison == \E req \in PoisonRequests : EnqueueBlog(req)

LoopStore ==
    \/ Discover
    \/ Wake
    \/ EnsureGroups
    \/ Read
    \/ FlushStore
    \/ FlushAck
    \/ FlushDel

NextPoison ==
    \/ EnqueuePoison
    \/ Discover
    \/ Wake
    \/ EnsureGroups
    \/ Read
    \/ FlushStore
    \/ FlushAck
    \/ FlushDel
    \/ Tick

PoisonSpec == Init /\ [][NextPoison]_vars /\ WF_vars(LoopStore) /\ WF_vars(Tick)

\* C23: a key whose bulk insert fails on every attempt does not keep the other
\* keys from being flushed: every buffered item whose key's payload the store
\* accepts is eventually committed, so in the end only refused keys still
\* hold items.
C23_OtherKeysEventuallyFlushed ==
    <>[](\A k \in Keys : buffers[k] # <<>> => too_long(rows_json(buffers[k])))

(***************************************************************************)
(* A group creation the bus refuses.                                       *)
(***************************************************************************)
\* ensure_groups when XGROUP CREATE raises a ResponseError other than
\* BUSYGROUP for one of the streams: the error is logged, the group of that
\* stream is left as it was, the other streams are dealt with as usual and
\* run goes on to the read.
EnsureLogged ==
    /\ pc = "ensure"
    /\ Fault
    /\ \E refused \in Range(disc) :
           groups' = [s \in Streams |->
                         IF s \in Range(disc) \ {refused} THEN xgroup_create(s) ELSE groups[s]]
    /\ pc' = "read"
    /\ since' = now
    /\ UNCHANGED <<registry, streams, next_mid, store, disc, keys_to_flush, buffers, key_order,
                   buffer_first_at, buffer_bytes, crashes, instances, updates, reply, hist>>

\* The one XREADGROUP over all discovered streams is refused as a whole
\* (NOGROUP) when one of them has no group.
NOGROUP == \E s \in Range(disc) : ~groups[s].exists

\* The group read of run, with the bus checking the groups it names.
ReadGroups ==
    /\ pc = "read"
    /\ IF NOGROUP
       THEN /\ LoopError
            /\ UNCHANGED <<bus, store, buffers, key_order, buffer_first_at, buffer_bytes,
                           env, hist>>
       ELSE Read

NextEnsure ==
    \/ Enqueue
    \/ Discover
    \/ Wake
    \/ EnsureGroups
    \/ EnsureLogged
    \/ ReadGroups
    \/ FlushInsert
    \/ FlushAck
    \/ FlushDel
    \/ Tick

EnsureSpec == Init /\ [][NextEnsure]_vars

\* C24: a group creation error on one discovered stream does not abort the
\* iteration: when the group read of the iteration ends without a failure of
\* its own (and the process lives), the deliverable entries of every discovered stream that has its
\* group are in the buffers.
C24_OtherStreamsStillRead ==
    [][(pc = "read") /\ pc' # "read" /\ faults' = faults /\ crashes' = crashes =>
          \A s \in Range(disc) :
              groups[s].exists => Mids(xreadgroup(s)) \subseteq Buffered']_vars

\* C25: between any two steps of the worker, for every key, first_at is
\* present exactly when the key's list is not empty, and the byte accumulator
\* is the sum over the buffered items of
\* len(content) + len(author) + len(location) + len(genre) + 64 (0 for an
\* empty list).
C25_BufferAccounting ==
    \A k \in Keys :
        /\ k \in DOMAIN buffer_first_at <=> buffers[k] # <<>>
        /\ buffer_bytes[k] = SumBytes(buffers[k])

\* One key was flushed and reset (its item is committed, its list is empty)
\* while another key holds an item.
C25_Witness ==
    \E k1, k2 \in Keys :
        /\ k1 # k2
        /\ batches = 1
        /\ insert_log[1].mid \notin Buffered
        /\ Len(buffers[k1]) = 1
        /\ buffers[k2] = <<>>
        /\ k2 \in Range(key_order)

\* The entries that leave stream s in a step.
Gone(s) == Mids(streams[s]) \ Mids(streams'[s])

\* C26: the worker removes an entry from its stream only after its record has
\* been committed (the delete at the end of a flush, of items of the flushed
\* key); every other removal is made by an append: the capped append evicts
\* oldest entries of its stream, committed or not, and leaves at least
\* stream_maxlen entries.
C26_RemovedByDeleteOrCap ==
    [][\A s \in Streams :
          Gone(s) # {} =>
              \/ /\ pc = "del"
                 /\ next_mid' = next_mid
                 /\ Gone(s) \subseteq Committed
                 /\ Gone(s) \subseteq item_mids(buffers[Head(keys_to_flush)])
              \/ /\ next_mid' = next_mid + 1
                 /\ next_mid \in Mids(streams'[s])
                 /\ \A g \in Gone(s) : \A m \in Mids(streams'[s]) : g < m
                 /\ Len(streams'[s]) >= stream_maxlen]_vars

\* An entry was evicted by a later append before any read, and the worker
\* has deleted another entry after committing it.
C26_Witness ==
    /\ \E m \in 1..(next_mid - 1) : Lost(m) /\ m \notin Committed
    /\ xdeleted # {}
    /\ xdeleted \subseteq Committed

\* C26 as stated: an entry that is no longer in its stream has been committed.
C26_Original ==
    \A m \in 1..(next_mid - 1) :
        (\A s \in Streams : m \notin Mids(streams[s])) => m \in Committed

(***************************************************************************)
(* A backlog of one key.                                                   *)
(***************************************************************************)
MaxBacklog == 4

\* Short records of one key; the service gives each its own client_msg_id.
BacklogRequests ==
    {[client_msg_id |-> "", author |-> "a", content |-> "c", genre |-> "g1",
      location |-> "l1", created_at_iso |-> <<>>]}

EnqueueBacklog == \E req \in BacklogRequests : EnqueueBlogUpTo(req, MaxBacklog)

NextBacklog ==
    \/ EnqueueBacklog
    \/ Discover
    \/ Wake
    \/ EnsureGroups
    \/ Read
    \/ FlushInsert
    \/ FlushAck
    \/ FlushDel
    \/ Tick

BacklogSpec == Init /\ [][NextBacklog]_vars

\* C27: a group read adds at most batch_max_count items to a key's buffer; a
\* key that an evaluation leaves unflushed holds fewer than batch_max_count
\* items; so, as long as no call has failed, a bulk insert carries at most
\* 2 * batch_max_count - 1 records, the items kept from before and those of
\* one read.
C27_BatchBounded ==
    /\ [][\A k \in Keys : Len(buffers'[k]) <= Len(buffers[k]) + batch_max_count]_vars
    /\ [][Evaluation =>
            \A k \in Keys : k \notin Range(keys_to_flush') => Len(buffers'[k]) < batch_max_count]_vars
    /\ [](pc = "insert" /\ faults = 0 =>
            Len(buffers[Head(keys_to_flush)]) <= 2 * batch_max_count - 1)

\* A bulk insert of more than batch_max_count records is about to be issued,
\* with no failure so far: an item that was waiting for its age and the
\* batch_max_count items of the next read.
C27_Witness ==
    /\ pc = "insert"
    /\ faults = 0
    /\ Len(buffers[Head(keys_to_flush)]) = 2 * batch_max_count - 1
    /\ next_mid = MaxBacklog + 1

\* C27 as stated: the buffer of the key being flushed never holds more than
\* batch_max_count items.
C27_Original ==
    pc = "insert" => Len(buffers[Head(keys_to_flush)]) <= batch_max_count

====
